---------------------------- MODULE Spec2Model ----------------------------
(***************************************************************************)
(* Model of the three grayscale tools of src/grayscale_tool:               *)
(*   grayscale_tool.py                 ("gray")                            *)
(*   grayscale_adjust_tool.py          ("adjust")                          *)
(*   grayscale_adjust_preview_tool.py  ("preview")                         *)
(*                                                                         *)
(* Strings are sequences of one-character strings, ordered by code point  *)
(* as Python orders str.  Paths are POSIX strings with separator "/".      *)
(* The source tree is a fixed set of files and directories; the output     *)
(* directory is a function from file name to the saved content.            *)
(***************************************************************************)
EXTENDS Integers, Sequences, FiniteSets, TLC

VARIABLES
    tool,       \* which of the three programs is running
    argv,       \* sys.argv[1:]
    mode,       \* position of the program: "start", "loop", "gui", "done",...
    targets,    \* the target list (process_targets' argument / the GUI's list)
    idx,        \* number of loop iterations of process_targets completed
    ok,         \* the loop's ok counter
    skip,       \* the loop's skip counter
    out,        \* lines printed so far
    outdir,     \* OUTPUT_DIR: file name -> saved content
    ret,        \* the return value of run_cli / main (-1 before it returns)
    runs,       \* number of program runs started so far
    lb,         \* the GUI listbox entries
    gray,       \* apply_adjustments' first argument
    cfg,        \* apply_adjustments' second argument
    result,     \* what apply_adjustments returned (empty before the call)
    steps,      \* the tone operations apply_adjustments executed, in order
    last,       \* the last call made: a conversion, or a GUI list operation
    stack,      \* the conversion loops running in the GUI, innermost last
    btn_start,  \* state of the start button (gray and adjust tools)
    controls,   \* values of the checkbox, the spinbox and the sliders
    sel,        \* lb.curselection(): the selected index from 1, 0 for none
    preview_base, \* App.preview_base
    shown,      \* what the two preview panes show
    update_job, \* App.update_job: an after id, 0 for None
    timers,     \* after callbacks pending in the event loop
    now,        \* time elapsed, in ticks
    nextid,     \* the id root.after returns next
    events,     \* number of user events handled so far
    done,       \* the conversion loops that have shown their completion dialog
    gamma_lut   \* the gamma table under construction

\* the state of the GUI's event loop and of the gamma table
appVars == <<stack, btn_start, controls, sel, preview_base, shown, update_job,
             timers, now, nextid, events, done, gamma_lut>>

vars == <<tool, argv, mode, targets, idx, ok, skip, out, outdir, ret, runs,
          lb, gray, cfg, result, steps, last, stack, btn_start, controls, sel,
          preview_base, shown, update_job, timers, now, nextid, events, done,
          gamma_lut>>

---------------------------------------------------------------------------
(* Bounds of the model *)

\* longest argv / longest list of items handed to _push
MaxArgs == 2
\* number of program runs sharing one output directory
MaxRuns == 2

---------------------------------------------------------------------------
(* Strings *)

UpperChars == <<"A","B","C","D","E","F","G","H","I","J","K","L","M",
                "N","O","P","Q","R","S","T","U","V","W","X","Y","Z">>
LowerChars == <<"a","b","c","d","e","f","g","h","i","j","k","l","m",
                "n","o","p","q","r","s","t","u","v","w","x","y","z">>
DigitChars == <<"0","1","2","3","4","5","6","7","8","9">>

IndexOf(s, c) == CHOOSE i \in 1..Len(s) : s[i] = c
Has(s, c) == \E i \in 1..Len(s) : s[i] = c

\* ord(c)
Code(c) ==
    IF Has(UpperChars, c) THEN 64 + IndexOf(UpperChars, c)
    ELSE IF Has(LowerChars, c) THEN 96 + IndexOf(LowerChars, c)
    ELSE IF Has(DigitChars, c) THEN 47 + IndexOf(DigitChars, c)
    ELSE CASE c = "-" -> 45
           [] c = "." -> 46
           [] c = "/" -> 47
           [] c = "_" -> 95

\* str.lower(), one character
LowerChar(c) == IF Has(UpperChars, c) THEN LowerChars[IndexOf(UpperChars, c)] ELSE c
\* str.lower()
Lower(s) == [i \in 1..Len(s) |-> LowerChar(s[i])]

\* s < t for two str, as Python compares them: by code point, a proper
\* prefix first
StrLess(s, t) ==
    \E k \in 1..(Len(t)) :
        /\ \A j \in 1..(k - 1) : j <= Len(s) /\ s[j] = t[j]
        /\ k - 1 <= Len(s)
        /\ \/ Len(s) = k - 1
           \/ Len(s) >= k /\ Code(s[k]) < Code(t[k])

\* s.rfind(c), 1-based, 0 when absent
RFind(s, c) ==
    IF Has(s, c) THEN CHOOSE i \in 1..Len(s) : s[i] = c /\ \A j \in (i+1)..Len(s) : s[j] # c
    ELSE 0

\* str(n) for n >= 0
RECURSIVE Digits(_)
Digits(n) == IF n < 10 THEN <<DigitChars[n + 1]>>
             ELSE Digits(n \div 10) \o <<DigitChars[(n % 10) + 1]>>

Range(s) == {s[i] : i \in 1..Len(s)}

---------------------------------------------------------------------------
(* Paths: posixpath *)

Sep == "/"

\* s.split(sep): the pieces between separators (empty pieces kept)
RECURSIVE Split(_, _)
Split(s, sep) ==
    IF ~Has(s, sep) THEN <<s>>
    ELSE LET i == CHOOSE k \in 1..Len(s) : s[k] = sep /\ \A j \in 1..(k-1) : s[j] # sep
         IN <<SubSeq(s, 1, i - 1)>> \o Split(SubSeq(s, i + 1, Len(s)), sep)

\* sep.join(comps)
RECURSIVE Join(_, _)
Join(comps, sep) ==
    IF comps = <<>> THEN <<>>
    ELSE IF Len(comps) = 1 THEN comps[1]
    ELSE comps[1] \o <<sep>> \o Join(Tail(comps), sep)

StartsWith(s, pre) == Len(s) >= Len(pre) /\ SubSeq(s, 1, Len(pre)) = pre

\* the component loop of posixpath.normpath
RECURSIVE NormComps(_, _, _)
NormComps(comps, new_comps, initial_slashes) ==
    IF comps = <<>> THEN new_comps
    ELSE LET comp == Head(comps)
             rest == Tail(comps)
         IN IF comp = <<>> \/ comp = <<".">> THEN NormComps(rest, new_comps, initial_slashes)
            ELSE IF \/ comp # <<".", ".">>
                    \/ (initial_slashes = 0 /\ new_comps = <<>>)
                    \/ (new_comps # <<>> /\ new_comps[Len(new_comps)] = <<".", ".">>)
                 THEN NormComps(rest, Append(new_comps, comp), initial_slashes)
            ELSE IF new_comps # <<>>
                 THEN NormComps(rest, SubSeq(new_comps, 1, Len(new_comps) - 1), initial_slashes)
            ELSE NormComps(rest, new_comps, initial_slashes)

\* posixpath.normpath
NormPath(path) ==
    IF path = <<>> THEN <<".">>
    ELSE LET initial_slashes ==
                 IF ~StartsWith(path, <<Sep>>) THEN 0
                 ELSE IF StartsWith(path, <<Sep, Sep>>) /\ ~StartsWith(path, <<Sep, Sep, Sep>>)
                      THEN 2 ELSE 1
             joined == Join(NormComps(Split(path, Sep), <<>>, initial_slashes), Sep)
             p == [i \in 1..initial_slashes |-> Sep] \o joined
         IN IF p = <<>> THEN <<".">> ELSE p

\* posixpath.join(a, b)
PathJoin(a, b) ==
    IF StartsWith(b, <<Sep>>) THEN b
    ELSE IF a = <<>> \/ a[Len(a)] = Sep THEN a \o b
    ELSE a \o <<Sep>> \o b

\* the process's working directory
Cwd == <<"/", "w">>

\* posixpath.abspath
AbsPath(path) == NormPath(IF StartsWith(path, <<Sep>>) THEN path ELSE PathJoin(Cwd, path))

\* norm(path)
Norm(path) == NormPath(AbsPath(path))

\* posixpath.basename
Basename(p) == SubSeq(p, RFind(p, Sep) + 1, Len(p))

\* posixpath.dirname
Dirname(p) ==
    LET i == RFind(p, Sep)
        head == SubSeq(p, 1, i)
    IN IF head # <<>> /\ \E k \in 1..Len(head) : head[k] # Sep
       THEN SubSeq(head, 1, CHOOSE k \in 1..Len(head) :
                                 head[k] # Sep /\ \A j \in (k+1)..Len(head) : head[j] = Sep)
       ELSE head

\* posixpath.splitext: <<root, ext>>; leading dots of the file name are not
\* an extension
SplitExt(p) ==
    LET sepIndex == RFind(p, Sep)
        dotIndex == RFind(p, ".")
    IN IF dotIndex > sepIndex /\ \E k \in (sepIndex + 1)..(dotIndex - 1) : p[k] # "."
       THEN <<SubSeq(p, 1, dotIndex - 1), SubSeq(p, dotIndex, Len(p))>>
       ELSE <<p, <<>>>>

---------------------------------------------------------------------------
(* The source tree the tools read.  Every file is a regular file.          *)

\* /w/a.png
F_a_png == <<"/","w","/","a",".","p","n","g">>
\* /w/B.JPG
F_B_JPG == <<"/","w","/","B",".","J","P","G">>
\* /w/n.txt
F_n_txt == <<"/","w","/","n",".","t","x","t">>
\* /w/d/a.png
F_d_a_png == <<"/","w","/","d","/","a",".","p","n","g">>
\* /w/d/c.gif
F_d_c_gif == <<"/","w","/","d","/","c",".","g","i","f">>
\* /w/d/e/z.png
F_d_e_z_png == <<"/","w","/","d","/","e","/","z",".","p","n","g">>

\* What Image.open finds in each file: a still image with its mode and
\* pixels, an animated image, or bytes no decoder recognises.
FileContent ==
    F_a_png     :> [kind |-> "image", mode |-> "RGB",
                    px |-> << <<255, 0, 0>>, <<0, 255, 0>>, <<10, 20, 30>> >>] @@
    F_B_JPG     :> [kind |-> "image", mode |-> "L", px |-> <<40, 120, 200>>] @@
    F_n_txt     :> [kind |-> "unidentified"] @@
    F_d_a_png   :> [kind |-> "image", mode |-> "LA",
                    px |-> << <<64, 255>>, <<128, 0>>, <<192, 128>> >>] @@
    F_d_c_gif   :> [kind |-> "animated", mode |-> "P"] @@
    F_d_e_z_png :> [kind |-> "unidentified"]

Files == DOMAIN FileContent

\* every directory of the tree: the ancestors of its files
RECURSIVE Ancestors(_)
Ancestors(p) == IF Dirname(p) = p THEN {p} ELSE {Dirname(p)} \cup Ancestors(Dirname(p))
Dirs == UNION {Ancestors(f) : f \in Files}

\* os.path.isdir / os.path.isfile
IsDir(p) == p \in Dirs
IsFile(p) == p \in Files

\* a set as a sequence, in an order the caller may not rely on
RECURSIVE SetToSeq(_)
SetToSeq(S) == IF S = {} THEN <<>>
               ELSE LET x == CHOOSE y \in S : TRUE IN <<x>> \o SetToSeq(S \ {x})

RECURSIVE Flatten(_)
Flatten(ss) == IF ss = <<>> THEN <<>> ELSE Head(ss) \o Flatten(Tail(ss))

\* os.walk(top), top-down: for each directory, <<root, files>>, the names of
\* its non-directory entries, then its sub-directories' in turn.  The order
\* of a directory's entries is the operating system's.
RECURSIVE Walk(_)
Walk(top) ==
    LET files == {Basename(f) : f \in {g \in Files : Dirname(g) = top}}
        subs == {d \in Dirs : d # top /\ Dirname(d) = top}
        subseq == SetToSeq(subs)
    IN << <<top, SetToSeq(files)>> >> \o Flatten([i \in 1..Len(subseq) |-> Walk(subseq[i])])

---------------------------------------------------------------------------
(* Target collection *)

E_jpg == <<".","j","p","g">>
E_jpeg == <<".","j","p","e","g">>
E_png == <<".","p","n","g">>
E_tif == <<".","t","i","f">>
E_tiff == <<".","t","i","f","f">>
E_bmp == <<".","b","m","p">>
E_gif == <<".","g","i","f">>

IMAGE_EXTS == {E_jpg, E_jpeg, E_png, E_tif, E_tiff, E_bmp, E_gif}

\* is_image_file comparing the extension as written, without lower()
is_image_file_cs(path) == SplitExt(path)[2] \in IMAGE_EXTS

\* is_image_file(path)
is_image_file(path) == Lower(SplitExt(path)[2]) \in IMAGE_EXTS

\* the inner loops of collect_targets over os.walk(p): acc is <<paths, seen>>
RECURSIVE CollectFiles(_, _, _)
CollectFiles(root, files, acc) ==
    IF files = <<>> THEN acc
    ELSE LET fp == Norm(PathJoin(root, Head(files)))
         IN IF is_image_file(fp) /\ fp \notin acc[2]
            THEN CollectFiles(root, Tail(files), <<Append(acc[1], fp), acc[2] \cup {fp}>>)
            ELSE CollectFiles(root, Tail(files), acc)

RECURSIVE CollectWalk(_, _)
CollectWalk(walk, acc) ==
    IF walk = <<>> THEN acc
    ELSE CollectWalk(Tail(walk), CollectFiles(Head(walk)[1], Head(walk)[2], acc))

\* the outer loop of collect_targets over inputs
RECURSIVE CollectInputs(_, _)
CollectInputs(inputs, acc) ==
    IF inputs = <<>> THEN acc
    ELSE IF Head(inputs) = <<>> THEN CollectInputs(Tail(inputs), acc)
    ELSE LET p == Norm(Head(inputs))
         IN IF IsDir(p) THEN CollectInputs(Tail(inputs), CollectWalk(Walk(p), acc))
            ELSE IF IsFile(p) /\ is_image_file(p) /\ p \notin acc[2]
                 THEN CollectInputs(Tail(inputs), <<Append(acc[1], p), acc[2] \cup {p}>>)
            ELSE CollectInputs(Tail(inputs), acc)

\* list.sort() of a list of str: insertion into ascending order
RECURSIVE InsertSorted(_, _)
InsertSorted(x, s) ==
    IF s = <<>> THEN <<x>>
    ELSE IF StrLess(x, Head(s)) THEN <<x>> \o s
    ELSE <<Head(s)>> \o InsertSorted(x, Tail(s))

RECURSIVE SortPaths(_)
SortPaths(s) == IF s = <<>> THEN <<>> ELSE InsertSorted(Head(s), SortPaths(Tail(s)))

\* collect_targets without paths.sort()
collect_targets_unsorted(inputs) == CollectInputs(inputs, <<<<>>, {}>>)[1]

\* collect_targets(inputs)
collect_targets(inputs) == SortPaths(CollectInputs(inputs, <<<<>>, {}>>)[1])

---------------------------------------------------------------------------
(* Images.  A decoded image is its mode and its pixels in raster order; an *)
(* "L" image is a sequence of levels 0..255.  The imaging library's        *)
(* operations are computed in exact arithmetic, as the library computes    *)
(* them for factors that are exact binary fractions.                       *)

Clip8(v) == IF v <= 0 THEN 0 ELSE IF v >= 255 THEN 255 ELSE v

\* Image.convert("L") of one RGB pixel: ITU-R 601-2 luma, 16-bit fixed point
Luma(rgb) == (rgb[1] * 19595 + rgb[2] * 38470 + rgb[3] * 7471 + 32768) \div 65536

\* the two lines "if im.mode not in ("L", "LA"): im = im.convert("RGB")" and
\* ImageOps.grayscale(im): the pixels of the resulting "L" image
ToGray(im) ==
    IF im.mode = "L" THEN im.px
    ELSE IF im.mode = "LA" THEN [i \in 1..Len(im.px) |-> im.px[i][1]]
    ELSE [i \in 1..Len(im.px) |-> Luma(im.px[i])]

RECURSIVE SumSeq(_)
SumSeq(s) == IF s = <<>> THEN 0 ELSE Head(s) + SumSeq(Tail(s))

\* ImageOps.autocontrast(im, cutoff=cutoff) of an "L" image: drop
\* n * cutoff // 100 pixels from each end of the histogram, then stretch the
\* remaining range [lo, hi] to [0, 255]
AutoContrast(im, cutoff) ==
    LET n == Len(im)
        cut == (n * cutoff) \div 100
        Below(v) == Cardinality({i \in 1..n : im[i] <= v})
        Above(v) == Cardinality({i \in 1..n : im[i] >= v})
        los == {v \in Range(im) : Below(v) > cut}
        his == {v \in Range(im) : Above(v) > cut}
        lo == CHOOSE v \in los : \A u \in los : v <= u
        hi == CHOOSE v \in his : \A u \in his : v >= u
    IN IF n = 0 \/ los = {} \/ his = {} THEN im
       ELSE IF hi <= lo THEN im
       ELSE [i \in 1..n |->
                IF im[i] <= lo THEN 0 ELSE Clip8(((im[i] - lo) * 255) \div (hi - lo))]

\* Image.blend(degenerate, im, factor) of one pixel, factor = f100 / 100:
\* interpolation truncates, extrapolation clips then truncates
Blend(d, p, f100) ==
    LET num == 100 * d + f100 * (p - d)
    IN IF f100 >= 0 /\ f100 <= 100 THEN num \div 100
       ELSE IF num <= 0 THEN 0
       ELSE IF num >= 25500 THEN 255
       ELSE num \div 100

\* ImageEnhance.Brightness(im).enhance(b): blend with a black image
Brightness(im, b100) == [i \in 1..Len(im) |-> Blend(0, im[i], b100)]

\* ImageEnhance.Contrast(im).enhance(c): blend with the image of the mean
\* level, int(mean + 0.5)
Contrast(im, c100) ==
    LET n == Len(im)
        mean == IF n = 0 THEN 0 ELSE (2 * SumSeq(im) + n) \div (2 * n)
    IN [i \in 1..n |-> Blend(mean, im[i], c100)]

---------------------------------------------------------------------------
(* Natural numbers of any size, least significant limb first, for the     *)
(* powers of the gamma table.                                              *)

Limb == 1000000

\* a number below Limb^2
BigOf(n) ==
    IF n = 0 THEN <<>> ELSE IF n < Limb THEN <<n>> ELSE <<n % Limb, n \div Limb>>

\* limbs lo..hi of a * m + carry, and the carry out of limb hi
RECURSIVE BigMulRange(_, _, _, _, _)
BigMulRange(a, m, lo, hi, carry) ==
    IF lo = hi
    THEN LET v == a[lo] * m + carry
         IN [limbs |-> <<v % Limb>>, carry |-> v \div Limb]
    ELSE LET mid == (lo + hi) \div 2
             L == BigMulRange(a, m, lo, mid, carry)
             c == L.carry
             R == IF c >= 0 THEN BigMulRange(a, m, mid + 1, hi, c) ELSE L
         IN [limbs |-> L.limbs \o R.limbs, carry |-> R.carry]

\* a * m for a small m
BigMul(a, m) ==
    IF m = 0 \/ a = <<>> THEN <<>>
    ELSE LET r == BigMulRange(a, m, 1, Len(a), 0)
         IN IF r.carry = 0 THEN r.limbs ELSE Append(r.limbs, r.carry)

\* a * m^e
RECURSIVE BigMulPow(_, _, _)
BigMulPow(a, m, e) ==
    IF e = 0 THEN a
    ELSE IF e = 1 THEN BigMul(a, m)
    ELSE LET h == BigMulPow(a, m, e \div 2)
         IN IF Len(h) >= 0 THEN BigMulPow(h, m, e - e \div 2) ELSE h

RECURSIVE BigLeqFrom(_, _, _)
BigLeqFrom(a, b, k) ==
    IF k = 0 THEN TRUE
    ELSE IF a[k] # b[k] THEN a[k] < b[k]
    ELSE BigLeqFrom(a, b, k - 1)

\* a <= b
BigLeq(a, b) ==
    IF Len(a) # Len(b) THEN Len(a) < Len(b) ELSE BigLeqFrom(a, b, Len(a))

RECURSIVE Gcd(_, _)
Gcd(a, b) == IF b = 0 THEN a ELSE Gcd(b, a % b)

\* With inv = P / Q the exact value 255 * (i / 255)^inv is at least k - 1/2
\* exactly when (2k - 1)^Q * 255^P <= 2^Q * 255^Q * i^P; the common power of
\* 255 is left out of both sides.  No tie is possible: one side is odd and
\* the other even.
GammaLhs(P, Q, k) ==
    BigMulPow(BigMulPow(BigOf(1), 2 * k - 1, Q), 255, IF P > Q THEN P - Q ELSE 0)
GammaRhs(P, Q, i) ==
    BigMulPow(BigMulPow(BigMulPow(BigOf(1), 2, Q), i, P), 255,
              IF Q > P THEN Q - P ELSE 0)

\* the largest k in lo..hi with lhs[k] <= rhs, or lo
RECURSIVE GammaSearch(_, _, _, _)
GammaSearch(lhs, rhs, lo, hi) ==
    IF lo = hi THEN lo
    ELSE LET mid == (lo + hi + 1) \div 2
         IN IF BigLeq(lhs[mid], rhs) THEN GammaSearch(lhs, rhs, mid, hi)
            ELSE GammaSearch(lhs, rhs, lo, mid - 1)

\* int(round((i / 255.0) ** inv * 255.0)) with inv = 1.0 / max(g, 1e-6) and
\* g = g100 / 100 > 0: inv = P / Q in lowest terms
GammaEntry(g100, i) ==
    LET d == Gcd(100, g100)
        P == 100 \div d
        Q == g100 \div d
    IN GammaSearch([k \in 1..255 |-> GammaLhs(P, Q, k)], GammaRhs(P, Q, i), 0, 255)

\* lut = [int(round((i / 255.0) ** inv * 255.0)) for i in range(256)]: the
\* entries of GammaEntry, with the left sides computed once for the table
GammaLut(g100) ==
    LET d == Gcd(100, g100)
        P == 100 \div d
        Q == g100 \div d
        lhs == [k \in 1..255 |-> GammaLhs(P, Q, k)] @@ <<>>
    IN [i \in 0..255 |-> GammaSearch(lhs, GammaRhs(P, Q, i), 0, 255)]

\* im.point(lut, mode="L") with the gamma table
Gamma(im, g100) == LET lut == GammaLut(g100) IN [k \in 1..Len(im) |-> lut[im[k]]]

---------------------------------------------------------------------------
(* The adjustment pipeline.  A configuration holds brightness, contrast    *)
(* and gamma in hundredths (the sliders' resolution is 0.01), so a value   *)
(* is within 1e-6 of 1.0 exactly when it is 100.                           *)

\* one executed tone operation: the state after it, with the operation, its
\* input and its output appended to the trace
Did(st, op, o) ==
    [im |-> o, steps |-> Append(st.steps, [op |-> op, in |-> st.im, out |-> o])]

\* apply_adjustments running autocontrast whenever cutoff is positive,
\* whatever the autocontrast flag says
apply_adjustments_by_cutoff(g, c) ==
    LET s0 == [im |-> g, steps |-> <<>>]
        s1 == IF c.autocontrast \/ c.cutoff > 0
              THEN Did(s0, "autocontrast", AutoContrast(s0.im, c.cutoff)) ELSE s0
        s2 == IF c.brightness # 100
              THEN Did(s1, "brightness", Brightness(s1.im, c.brightness)) ELSE s1
        s3 == IF c.contrast # 100
              THEN Did(s2, "contrast", Contrast(s2.im, c.contrast)) ELSE s2
        s4 == IF c.gamma # 100
              THEN Did(s3, "gamma", Gamma(s3.im, c.gamma)) ELSE s3
    IN s4

\* apply_adjustments(gray, cfg) of the adjust tool: the returned image and
\* the operations executed
apply_adjustments(g, c) ==
    LET s0 == [im |-> g, steps |-> <<>>]
        s1 == IF c.autocontrast
              THEN Did(s0, "autocontrast", AutoContrast(s0.im, c.cutoff)) ELSE s0
        s2 == IF c.brightness # 100
              THEN Did(s1, "brightness", Brightness(s1.im, c.brightness)) ELSE s1
        s3 == IF c.contrast # 100
              THEN Did(s2, "contrast", Contrast(s2.im, c.contrast)) ELSE s2
        s4 == IF c.gamma # 100
              THEN Did(s3, "gamma", Gamma(s3.im, c.gamma)) ELSE s3
    IN s4

\* apply_adjustments_L with contrast applied before brightness
apply_adjustments_L_swapped(g, c) ==
    LET s0 == [im |-> g, steps |-> <<>>]
        s1 == IF c.autocontrast
              THEN Did(s0, "autocontrast", AutoContrast(s0.im, c.cutoff)) ELSE s0
        s2 == IF c.contrast # 100
              THEN Did(s1, "contrast", Contrast(s1.im, c.contrast)) ELSE s1
        s3 == IF c.brightness # 100
              THEN Did(s2, "brightness", Brightness(s2.im, c.brightness)) ELSE s2
        s4 == IF c.gamma # 100
              THEN Did(s3, "gamma", Gamma(s3.im, c.gamma)) ELSE s3
    IN s4

\* apply_adjustments_L(gray, cfg) of the preview tool
apply_adjustments_L(g, c) ==
    LET s0 == [im |-> g, steps |-> <<>>]
        s1 == IF c.autocontrast
              THEN Did(s0, "autocontrast", AutoContrast(s0.im, c.cutoff)) ELSE s0
        s2 == IF c.brightness # 100
              THEN Did(s1, "brightness", Brightness(s1.im, c.brightness)) ELSE s1
        s3 == IF c.contrast # 100
              THEN Did(s2, "contrast", Contrast(s2.im, c.contrast)) ELSE s2
        s4 == IF c.gamma # 100
              THEN Did(s3, "gamma", Gamma(s3.im, c.gamma)) ELSE s3
    IN s4

\* default_cfg()
default_cfg ==
    [autocontrast |-> FALSE, cutoff |-> 1, brightness |-> 100, contrast |-> 100,
     gamma |-> 100]

---------------------------------------------------------------------------
(* Output paths and the conversion of one file *)

Tools == {"gray", "adjust", "preview"}

\* OUTPUT_DIR: Desktop/grayscale_output for the gray tool, Desktop/outputfolder
\* for the two adjust tools (written /og and /oa here)
OUTPUT_DIR(t) == IF t = "gray" THEN <<"/", "o", "g">> ELSE <<"/", "o", "a">>

\* the suffix put after the source's base name
Suffix(t) == IF t = "gray" THEN <<"_", "g", "r", "a", "y">> ELSE <<"_", "a", "d", "j">>

\* os.path.exists(p), given the files written so far
Exists(p, written) == p \in DOMAIN written \/ IsFile(p) \/ IsDir(p)

\* the while loop of safe_out_path
RECURSIVE SafeOutLoop(_, _, _, _, _, _, _)
SafeOutLoop(dir, name, suffix, ext, dst, n, written) ==
    IF Exists(dst, written)
    THEN SafeOutLoop(dir, name, suffix, ext,
                     PathJoin(dir, name \o suffix \o <<"-">> \o Digits(n) \o ext),
                     n + 1, written)
    ELSE dst

\* safe_out_path with "if" for "while": only the -2 name is tried
safe_out_path_once(dir, filename, suffix, written) ==
    LET name == SplitExt(filename)[1]
        ext == SplitExt(filename)[2]
        dst == PathJoin(dir, name \o suffix \o ext)
    IN IF Exists(dst, written)
       THEN PathJoin(dir, name \o suffix \o <<"-">> \o Digits(2) \o ext)
       ELSE dst

\* safe_out_path(filename, suffix) with OUTPUT_DIR = dir
safe_out_path(dir, filename, suffix, written) ==
    LET name == SplitExt(filename)[1]
        ext == SplitExt(filename)[2]
    IN SafeOutLoop(dir, name, suffix, ext, PathJoin(dir, name \o suffix \o ext), 2, written)

\* JPEG_SAVE_KW for .jpg/.jpeg destinations, the format's defaults otherwise
SaveKw(dst) ==
    IF Lower(SplitExt(dst)[2]) \in {E_jpg, E_jpeg}
    THEN [quality |-> 95, subsampling |-> 0, optimize |-> TRUE, progressive |-> FALSE]
    ELSE [default |-> TRUE]

\* What may go wrong in one conversion besides the file's content: nothing;
\* an exception before the output path is chosen (open, decode, convert);
\* an exception in save that leaves no file; one that leaves a partial file.
Faults == {"none", "early", "save", "save_partial"}

\* the image handed to save
Adjusted(t, im, c) ==
    IF t = "gray" THEN ToGray(im)
    ELSE IF t = "adjust" THEN apply_adjustments(ToGray(im), c).im
    ELSE apply_adjustments_L(ToGray(im), c).im

\* what save leaves at dst: the image, the encoder parameters, whether the
\* file is complete, and the source it was made from
Saved(t, src, c, dst, complete) ==
    [img |-> IF complete THEN Adjusted(t, FileContent[src], c) ELSE <<>>,
     kw |-> SaveKw(dst), complete |-> complete, src |-> src]

\* what a convert function hands back: it returns (res, info), or an
\* exception leaves it (raised)
Returned(res, info, written) ==
    [raised |-> FALSE, res |-> res, info |-> info, written |-> written]
Raised(written) ==
    [raised |-> TRUE, res |-> FALSE, info |-> "raised", written |-> written]

\* a convert function that tests is_animated only after saving
Convert_animated_late(t, src, c, fault, written) ==
    LET dst == safe_out_path(OUTPUT_DIR(t), Basename(src), Suffix(t), written)
    IN IF src \notin Files THEN Returned(FALSE, "failed", written)
       ELSE IF FileContent[src].kind = "unidentified"
            THEN Returned(FALSE, "unidentified", written)
       ELSE IF fault = "early" THEN Returned(FALSE, "failed", written)
       ELSE IF fault = "save" THEN Returned(FALSE, "failed", written)
       ELSE IF fault = "save_partial"
            THEN Returned(FALSE, "failed", (dst :> Saved(t, src, c, dst, FALSE)) @@ written)
       ELSE IF FileContent[src].kind = "animated"
            THEN Returned(FALSE, "animated", (dst :> Saved(t, src, c, dst, FALSE)) @@ written)
       ELSE Returned(TRUE, dst, (dst :> Saved(t, src, c, dst, TRUE)) @@ written)

\* a convert function without the final "except Exception" clause
Convert_uncaught(t, src, c, fault, written) ==
    LET dst == safe_out_path(OUTPUT_DIR(t), Basename(src), Suffix(t), written)
    IN IF src \notin Files THEN Raised(written)
       ELSE IF FileContent[src].kind = "unidentified"
            THEN Returned(FALSE, "unidentified", written)
       ELSE IF fault = "early" THEN Raised(written)
       ELSE IF FileContent[src].kind = "animated"
            THEN Returned(FALSE, "animated", written)
       ELSE IF fault = "save" THEN Raised(written)
       ELSE IF fault = "save_partial"
            THEN Raised((dst :> Saved(t, src, c, dst, FALSE)) @@ written)
       ELSE Returned(TRUE, dst, (dst :> Saved(t, src, c, dst, TRUE)) @@ written)

\* convert_to_gray(src) / convert_one(src, cfg) / convert_fullres(src, cfg):
\* the returned pair and the output directory afterwards.  Every exception
\* of the body is caught: UnidentifiedImageError and Exception.
Convert(t, src, c, fault, written) ==
    LET dst == safe_out_path(OUTPUT_DIR(t), Basename(src), Suffix(t), written)
    IN IF src \notin Files THEN Returned(FALSE, "failed", written)
       ELSE IF FileContent[src].kind = "unidentified"
            THEN Returned(FALSE, "unidentified", written)
       ELSE IF fault = "early" THEN Returned(FALSE, "failed", written)
       ELSE IF FileContent[src].kind = "animated"
            THEN Returned(FALSE, "animated", written)
       ELSE IF fault = "save" THEN Returned(FALSE, "failed", written)
       ELSE IF fault = "save_partial"
            THEN Returned(FALSE, "failed", (dst :> Saved(t, src, c, dst, FALSE)) @@ written)
       ELSE Returned(TRUE, dst, (dst :> Saved(t, src, c, dst, TRUE)) @@ written)

---------------------------------------------------------------------------
(* Inputs: what a command line or a file dialog may hand to the tools *)

\* "" (an empty argument; a cancelled dialog)
I_empty == <<>>
\* "a.png"
I_a == <<"a",".","p","n","g">>
\* "d/../a.png": the same file as "a.png"
I_a_via_d == <<"d","/",".",".","/","a",".","p","n","g">>
\* "n.txt": an existing file that is no image
I_n == <<"n",".","t","x","t">>
\* "nope.png": no such file
I_nope == <<"n","o","p","e",".","p","n","g">>
\* "d": a directory
I_d == <<"d">>
\* "d/e/": a directory inside d
I_d_e == <<"d","/","e","/">>

FileInputs == {I_empty, I_a, I_a_via_d, F_B_JPG, I_n, I_nope, F_d_c_gif}
DirInputs == {I_d, I_d_e}
Inputs == FileInputs \cup DirInputs

\* all lists over S of length at most n
ListsUpTo(S, n) == UNION {[1..k -> S] : k \in 0..n}

Argvs == ListsUpTo(Inputs, MaxArgs)

EmptyDir == [p \in {} |-> 0]

\* collect_targets of every input list of the model, as a table (@@ makes
\* the table explicit, so that it is computed once)
Collected == [inputs \in Argvs |-> collect_targets(inputs)] @@ EmptyDir

---------------------------------------------------------------------------
(* The command-line run: run_cli / main, process_targets *)

\* None, for preview_base and the preview panes
None == [some |-> FALSE]
Some(v) == [some |-> TRUE, v |-> v]

\* the widgets and the event loop as App.__init__ / launch_gui leave them
AppIdle ==
    /\ stack = <<>>
    /\ btn_start = "normal"
    /\ controls = default_cfg
    /\ sel = 0
    /\ preview_base = None
    /\ shown = None
    /\ update_job = 0
    /\ timers = {}
    /\ now = 0
    /\ nextid = 1
    /\ events = 0
    /\ done = <<>>
    /\ gamma_lut = <<>>

Locals(t, a, m) ==
    /\ tool = t
    /\ argv = a
    /\ mode = m
    /\ targets = <<>>
    /\ idx = 0
    /\ ok = 0
    /\ skip = 0
    /\ out = <<>>
    /\ ret = -1
    /\ lb = <<>>
    /\ gray = <<>>
    /\ cfg = default_cfg
    /\ result = <<>>
    /\ steps = <<>>
    /\ last = [op |-> "none"]

\* the program is started with an empty output directory, which
\* get_output_dir has created
Init ==
    /\ \E t \in Tools, a \in Argvs : Locals(t, a, "start")
    /\ outdir = EmptyDir
    /\ runs = 1
    /\ AppIdle

\* run_cli that hands process_targets whatever collect_targets found, also
\* an empty list
RunCli_no_gui ==
    /\ mode = "start"
    /\ tool \in {"gray", "adjust"}
    /\ targets' = Collected[argv]
    /\ mode' = "loop"
    /\ UNCHANGED <<tool, argv, idx, ok, skip, out, outdir, ret, runs, lb, gray, cfg,
                   result, steps, last>>
    /\ UNCHANGED appVars

\* run_cli(argv) of the gray and adjust tools, up to the call of launch_gui or
\* process_targets
RunCli ==
    /\ mode = "start"
    /\ tool \in {"gray", "adjust"}
    /\ targets' = Collected[argv]
    /\ mode' = IF targets' = <<>> THEN "gui" ELSE "loop"
    /\ UNCHANGED <<tool, argv, idx, ok, skip, out, outdir, ret, runs, lb, gray, cfg,
                   result, steps, last>>
    /\ UNCHANGED appVars

\* main(argv) of the preview tool: App() and app.run(), whatever argv holds
Main ==
    /\ mode = "start"
    /\ tool = "preview"
    /\ mode' = "gui"
    /\ UNCHANGED <<tool, argv, targets, idx, ok, skip, out, outdir, ret, runs, lb, gray,
                   cfg, result, steps, last>>
    /\ UNCHANGED appVars

\* the loop's step with enumerate(targets) counting from 0
ProcessOne_zero_based ==
    /\ mode = "loop"
    /\ idx < Len(targets)
    /\ \E fault \in Faults :
          LET p == targets[idx + 1]
              r == Convert(tool, p, cfg, fault, outdir)
          IN /\ outdir' = r.written
             /\ last' = [op |-> "convert", src |-> p, res |-> r.res, info |-> r.info]
             /\ mode' = mode
             /\ idx' = idx + 1
             /\ ok' = IF r.res THEN ok + 1 ELSE ok
             /\ skip' = IF r.res THEN skip ELSE skip + 1
             /\ out' = Append(out, [kind |-> "progress", i |-> idx,
                                    total |-> Len(targets),
                                    status |-> IF r.res THEN "OK" ELSE "SKIP",
                                    name |-> Basename(p),
                                    info |-> IF r.res THEN Basename(r.info)
                                             ELSE r.info])
    /\ UNCHANGED <<tool, argv, targets, ret, runs, lb, gray, cfg, result, steps>>
    /\ UNCHANGED appVars

\* one iteration of process_targets' loop: convert the next target and print
\* its progress line; an exception leaving the convert function would leave
\* process_targets too
ProcessOne ==
    /\ mode = "loop"
    /\ idx < Len(targets)
    /\ \E fault \in Faults :
          LET p == targets[idx + 1]
              r == Convert(tool, p, cfg, fault, outdir)
          IN /\ outdir' = r.written
             /\ last' = [op |-> "convert", src |-> p, res |-> r.res, info |-> r.info]
             /\ IF r.raised
                THEN /\ mode' = "crashed"
                     /\ UNCHANGED <<idx, ok, skip, out>>
                ELSE /\ mode' = mode
                     /\ idx' = idx + 1
                     /\ ok' = IF r.res THEN ok + 1 ELSE ok
                     /\ skip' = IF r.res THEN skip ELSE skip + 1
                     /\ out' = Append(out, [kind |-> "progress", i |-> idx + 1,
                                            total |-> Len(targets),
                                            status |-> IF r.res THEN "OK" ELSE "SKIP",
                                            name |-> Basename(p),
                                            info |-> IF r.res THEN Basename(r.info)
                                                     ELSE r.info])
    /\ UNCHANGED <<tool, argv, targets, ret, runs, lb, gray, cfg, result, steps>>
    /\ UNCHANGED appVars

\* the end of process_targets: the rule, the output directory, the summary,
\* the attempt to start explorer (which may raise; the exception is
\* swallowed) and return 0
Finish ==
    /\ mode = "loop"
    /\ idx = Len(targets)
    /\ \E started \in BOOLEAN :
          out' = out \o << [kind |-> "rule"],
                           [kind |-> "outdir", dir |-> OUTPUT_DIR(tool)],
                           [kind |-> "summary", ok |-> ok, skip |-> skip,
                            total |-> Len(targets)],
                           [kind |-> "explorer", started |-> started] >>
    /\ ret' = 0
    /\ mode' = "done"
    /\ UNCHANGED <<tool, argv, targets, idx, ok, skip, outdir, runs, lb, gray, cfg,
                   result, steps, last>>
    /\ UNCHANGED appVars

\* the GUI's window is closed without any conversion: mainloop returns and
\* launch_gui / main return 0
CloseGui ==
    /\ mode = "gui"
    /\ ret' = 0
    /\ mode' = "done"
    /\ UNCHANGED <<tool, argv, targets, idx, ok, skip, out, outdir, runs, lb, gray, cfg,
                   result, steps, last>>
    /\ UNCHANGED appVars

\* a tool is started again; the output directory keeps its files
Rerun ==
    /\ mode = "done"
    /\ runs < MaxRuns
    /\ runs' = runs + 1
    /\ \E t \in Tools, a \in Argvs :
          /\ tool' = t
          /\ argv' = a
    /\ mode' = "start"
    /\ targets' = <<>>
    /\ idx' = 0
    /\ ok' = 0
    /\ skip' = 0
    /\ out' = <<>>
    /\ ret' = -1
    /\ last' = [op |-> "none"]
    /\ UNCHANGED <<outdir, lb, gray, cfg, result, steps>>
    /\ UNCHANGED appVars

Next == RunCli \/ Main \/ ProcessOne \/ Finish \/ CloseGui \/ Rerun

Spec == Init /\ [][Next]_vars

---------------------------------------------------------------------------
(* The GUI's target list: add_files, add_folder, _push, clear_list *)

InitGui ==
    /\ \E t \in Tools : Locals(t, <<>>, "gui")
    /\ outdir = EmptyDir
    /\ runs = 1
    /\ AppIdle

\* _push without the "not in exist" filter
Pushed_unfiltered(old, items) == old \o Collected[items]

\* _push(items): the new targets list
Pushed(old, items) ==
    LET new == Collected[items]
        exist == Range(old)
        added == SelectSeq(new, LAMBDA p : p \notin exist)
    IN IF added = <<>> THEN old ELSE old \o added

\* _push(items), with the listbox
Push(items) ==
    LET new == Pushed(targets, items)
        added == SubSeq(new, Len(targets) + 1, Len(new))
    IN /\ targets' = new
       /\ lb' = lb \o added
       /\ last' = [op |-> "push", found |-> Len(Collected[items]), added |-> Len(added)]

\* add_files(): the dialog returns the files picked, none when cancelled
AddFiles ==
    /\ mode = "gui"
    /\ \E items \in ListsUpTo(FileInputs \ {I_empty}, MaxArgs) : Push(items)
    /\ UNCHANGED <<tool, argv, mode, idx, ok, skip, out, outdir, ret, runs, gray, cfg,
                   result, steps>>
    /\ UNCHANGED appVars

\* add_folder(): the dialog returns a directory, "" when cancelled
AddFolder ==
    /\ mode = "gui"
    /\ \E d \in DirInputs \cup {I_empty, I_nope} :
          IF d # <<>> THEN Push(<<d>>)
          ELSE /\ last' = [op |-> "cancel"]
               /\ UNCHANGED <<targets, lb>>
    /\ UNCHANGED <<tool, argv, mode, idx, ok, skip, out, outdir, ret, runs, gray, cfg,
                   result, steps>>
    /\ UNCHANGED appVars

\* clear_list()
ClearList ==
    /\ mode = "gui"
    /\ targets' = <<>>
    /\ lb' = <<>>
    /\ last' = [op |-> "clear"]
    /\ UNCHANGED <<tool, argv, mode, idx, ok, skip, out, outdir, ret, runs, gray, cfg,
                   result, steps>>
    /\ UNCHANGED appVars

NextGui == AddFiles \/ AddFolder \/ ClearList

SpecGui == InitGui /\ [][NextGui]_vars

---------------------------------------------------------------------------
(* The adjustment pipeline applied to one image under one configuration *)

\* the sliders' and the spinbox's values tried: factors that are exact
\* binary fractions, and gammas on both sides of 1.0
CutoffLevels == {0, 1, 5}
FactorLevels == {50, 75, 100, 125, 150}
GammaLevels == {80, 100, 125}

Cfgs == [autocontrast : BOOLEAN, cutoff : CutoffLevels, brightness : FactorLevels,
         contrast : FactorLevels, gamma : GammaLevels]

StillFiles == {f \in Files : FileContent[f].kind = "image"}
GrayImages == {ToGray(FileContent[f]) : f \in StillFiles}

InitAdjust ==
    /\ \E t \in {"adjust", "preview"} : tool = t
    /\ \E g \in GrayImages : gray = g
    /\ \E c \in Cfgs : cfg = c
    /\ argv = <<>>
    /\ mode = "start"
    /\ targets = <<>>
    /\ idx = 0
    /\ ok = 0
    /\ skip = 0
    /\ out = <<>>
    /\ ret = -1
    /\ lb = <<>>
    /\ result = <<>>
    /\ steps = <<>>
    /\ last = [op |-> "none"]
    /\ outdir = EmptyDir
    /\ runs = 1
    /\ AppIdle

\* the call apply_adjustments(gray, cfg) / apply_adjustments_L(gray, cfg)
Apply ==
    /\ mode = "start"
    /\ mode' = "applied"
    /\ LET r == IF tool = "adjust" THEN apply_adjustments(gray, cfg)
                ELSE apply_adjustments_L(gray, cfg)
       IN /\ result' = r.im
          /\ steps' = r.steps
    /\ last' = [op |-> "apply", cfg |-> cfg]
    /\ UNCHANGED <<tool, argv, targets, idx, ok, skip, out, outdir, ret, runs, lb,
                   gray, cfg>>
    /\ UNCHANGED appVars

NextAdjust == Apply

SpecAdjust == InitAdjust /\ [][NextAdjust]_vars

---------------------------------------------------------------------------
(* The gamma table, built entry by entry for every position of the gamma   *)
(* slider                                                                  *)

\* the ends of the gamma slider, in hundredths
GammaMin == 70
GammaMax == 130
\* range(256)
LutSize == 256

\* the slider positions for which the gamma branch is taken
GammaSteps == {g \in GammaMin..GammaMax : g # 100}

InitGamma ==
    /\ Locals("adjust", <<>>, "gamma")
    /\ outdir = EmptyDir
    /\ runs = 1
    /\ stack = <<>>
    /\ btn_start = "normal"
    /\ \E g \in GammaSteps : controls = [default_cfg EXCEPT !.gamma = g]
    /\ sel = 0
    /\ preview_base = None
    /\ shown = None
    /\ update_job = 0
    /\ timers = {}
    /\ now = 0
    /\ nextid = 1
    /\ events = 0
    /\ done = <<>>
    /\ gamma_lut = <<>>

\* a table that falls back to 0 in the middle
LutOf_dip(g100) ==
    LET t == GammaLut(g100) IN [k \in 1..LutSize |-> IF k = 129 THEN 0 ELSE t[k - 1]]

\* the list lut of the comprehension, as a sequence: lut[i] is LutOf(g)[i + 1]
LutOf(g100) == LET t == GammaLut(g100) IN [k \in 1..LutSize |-> t[k - 1]]

\* the list comprehension that builds lut
BuildLut ==
    /\ mode = "gamma"
    /\ gamma_lut = <<>>
    /\ gamma_lut' = LutOf(controls.gamma)
    /\ UNCHANGED <<tool, argv, mode, targets, idx, ok, skip, out, outdir, ret, runs,
                   lb, gray, cfg, result, steps, last, stack, btn_start, controls,
                   sel, preview_base, shown, update_job, timers, now, nextid,
                   events, done>>

NextGamma == BuildLut

SpecGamma == InitGamma /\ [][NextGamma]_vars

---------------------------------------------------------------------------
(* The GUI with its event loop: the handlers of the three windows, the     *)
(* conversion loops that call root.update() between files, and the preview *)
(* tool's after callbacks.  A handler runs when the event loop dispatches  *)
(* it: from mainloop, or from the update() of a running conversion loop.   *)

\* user events handled in one run of the model
MaxEvents == 4
\* the time that may pass, and the step in which it passes, in milliseconds
MaxTime == 120
TickMs == 60
\* root.after(DEBOUNCE_MS, self.render_preview)
DEBOUNCE_MS == 120

\* what the file dialogs hand back in this part of the model
AppFilePicks == { <<I_a>>, <<F_B_JPG>>, <<F_B_JPG, I_a>> }
AppDirPicks == { I_d_e, I_empty }
\* the values the controls are moved between
AppCfgs == { default_cfg, [default_cfg EXCEPT !.brightness = 150] }

\* the list, the listbox and the preview state, as one value the handlers
\* pass on
AppState ==
    [targets |-> targets, lb |-> lb, sel |-> sel, preview_base |-> preview_base,
     shown |-> shown, update_job |-> update_job, timers |-> timers,
     nextid |-> nextid]

SetApp(a) ==
    /\ targets' = a.targets
    /\ lb' = a.lb
    /\ sel' = a.sel
    /\ preview_base' = a.preview_base
    /\ shown' = a.shown
    /\ update_job' = a.update_job
    /\ timers' = a.timers
    /\ nextid' = a.nextid

\* make_preview_base(path): the grayscale of the image, None when it cannot
\* be opened (the first frame of an animated file is not described by the
\* tree and is shown as an empty image)
make_preview_base(path) ==
    IF path \notin Files \/ FileContent[path].kind = "unidentified" THEN None
    ELSE IF FileContent[path].kind = "animated" THEN Some(<<>>)
    ELSE Some(ToGray(FileContent[path]))

\* App.set_preview(im_before, im_after); the fit to the panes' size is left
\* out
set_preview(a, im_before, im_after) ==
    IF im_before = None \/ im_after = None THEN [a EXCEPT !.shown = None]
    ELSE [a EXCEPT !.shown = Some([before |-> im_before.v, after |-> im_after.v])]

\* App.render_preview() with get_cfg() returning ctl
render_preview(a, ctl) ==
    LET a1 == [a EXCEPT !.update_job = 0]
    IN IF a1.preview_base = None THEN set_preview(a1, None, None)
       ELSE set_preview(a1, a1.preview_base,
                        Some(apply_adjustments_L(a1.preview_base.v, ctl).im))

\* App.get_selected_path()
get_selected_path(a) ==
    IF a.sel = 0 THEN None
    ELSE IF 0 <= a.sel - 1 /\ a.sel - 1 < Len(a.targets) THEN Some(a.targets[a.sel])
    ELSE None

\* App.on_select()
on_select(a, ctl) ==
    LET s == get_selected_path(a)
    IN IF s = None THEN a
       ELSE LET a1 == [a EXCEPT !.preview_base = make_preview_base(s.v)]
            IN IF a1.preview_base = None THEN a1
               ELSE render_preview(a1, ctl)

\* App.schedule_update() at time t
schedule_update(a, t) ==
    LET kept == IF a.update_job # 0
                THEN {x \in a.timers : x.id # a.update_job}
                ELSE a.timers
    IN [a EXCEPT !.timers = kept \cup {[id |-> a.nextid, due |-> t + DEBOUNCE_MS]},
                 !.update_job = a.nextid,
                 !.nextid = a.nextid + 1]

\* _push(items) that never selects the first item
push_no_select(t, a, items, ctl) ==
    CHOOSE r \in
        { LET added == SubSeq(new, Len(a.targets) + 1, Len(new))
          IN IF added = <<>> THEN a
             ELSE [a EXCEPT !.targets = new, !.lb = a.lb \o added]
          : new \in {Pushed(a.targets, items)} } : TRUE

\* _push(items) of the tool t
push(t, a, items, ctl) ==
    CHOOSE r \in
        { LET added == SubSeq(new, Len(a.targets) + 1, Len(new))
              a1 == [a EXCEPT !.targets = new, !.lb = a.lb \o added]
          IN IF added = <<>> THEN a
             ELSE IF t = "preview" /\ Len(a1.targets) = Len(added)
                  THEN on_select([a1 EXCEPT !.sel = 1], ctl)
             ELSE a1 : new \in {Pushed(a.targets, items)} } : TRUE

\* clear_list() of the tool t; deleting the listbox's entries drops the
\* selection
clear_list(t, a) ==
    LET a1 == [a EXCEPT !.targets = <<>>, !.lb = <<>>, !.sel = 0]
    IN IF t = "preview" THEN set_preview([a1 EXCEPT !.preview_base = None], None, None)
       ELSE a1

Top == stack[Len(stack)]
\* the event loop is dispatching user events: mainloop, or the update() of
\* the innermost conversion loop
Dispatching == IF stack = <<>> THEN TRUE ELSE Top.pc = "pump"
\* the event loop is running after callbacks: also inside a message box
Idling == IF stack = <<>> THEN TRUE ELSE Top.pc \in {"pump", "dialog"}
UserEvent == Dispatching /\ events < MaxEvents /\ events' = events + 1

InitApp ==
    /\ \E t \in Tools : Locals(t, <<>>, "gui")
    /\ outdir = EmptyDir
    /\ runs = 1
    /\ AppIdle

\* what no handler of the window touches
cliVars == <<tool, argv, mode, idx, ok, skip, ret, runs, gray, result, steps, last,
             gamma_lut>>
listVars == <<targets, lb, sel, preview_base, shown, update_job, timers, nextid>>

\* add_files()
OnAddFiles ==
    /\ UserEvent
    /\ \E items \in AppFilePicks : (\E a \in {push(tool, AppState, items, controls)} : SetApp(a))
    /\ UNCHANGED <<cliVars, out, outdir, cfg, stack, btn_start, controls, now, done>>

\* add_folder()
OnAddFolder ==
    /\ UserEvent
    /\ \E d \in AppDirPicks :
          IF d # <<>> THEN (\E a \in {push(tool, AppState, <<d>>, controls)} : SetApp(a))
          ELSE UNCHANGED listVars
    /\ UNCHANGED <<cliVars, out, outdir, cfg, stack, btn_start, controls, now, done>>

\* clear_list()
OnClearList ==
    /\ UserEvent
    /\ (\E a \in {clear_list(tool, AppState)} : SetApp(a))
    /\ UNCHANGED <<cliVars, out, outdir, cfg, stack, btn_start, controls, now, done>>

\* the checkbox, the spinbox or a slider is changed; in the preview tool
\* its command is schedule_update
OnControls ==
    /\ UserEvent
    /\ tool # "gray"
    /\ \E c \in AppCfgs \ {controls} : controls' = c
    /\ IF tool = "preview" THEN (\E a \in {schedule_update(AppState, now)} : SetApp(a))
       ELSE UNCHANGED listVars
    /\ UNCHANGED <<cliVars, out, outdir, cfg, stack, btn_start, now, done>>

\* <Configure> of the preview frame: schedule_update()
OnConfigure ==
    /\ UserEvent
    /\ tool = "preview"
    /\ (\E a \in {schedule_update(AppState, now)} : SetApp(a))
    /\ UNCHANGED <<cliVars, out, outdir, cfg, stack, btn_start, controls, now, done>>

\* <<ListboxSelect>>: the user picks entry i; on_select()
OnSelect ==
    /\ UserEvent
    /\ tool = "preview"
    /\ \E i \in 1..Len(lb) : (\E a \in {on_select([AppState EXCEPT !.sel = i], controls)} : SetApp(a))
    /\ UNCHANGED <<cliVars, out, outdir, cfg, stack, btn_start, controls, now, done>>

\* a conversion loop about to fetch its first target; c is the
\* configuration read from the controls
Frame(c) ==
    [kind |-> "all", pc |-> "convert", it |-> 0, cfg |-> c, ok |-> 0, skip |-> 0,
     snap |-> targets, conv |-> <<>>, depth |-> Len(stack)]

\* start_proc() of the gray and adjust tools up to the loop; a disabled
\* button does not call it
OnStart ==
    /\ UserEvent
    /\ tool \in {"gray", "adjust"}
    /\ btn_start = "normal"
    /\ IF targets = <<>>
       THEN UNCHANGED <<cfg, btn_start, stack>>
       ELSE /\ cfg' = IF tool = "adjust" THEN controls ELSE cfg
            /\ btn_start' = "disabled"
            /\ stack' = Append(stack, Frame(cfg'))
    /\ UNCHANGED <<cliVars, listVars, out, outdir, controls, now, done>>

\* convert_all() of the preview tool up to the loop
OnConvertAll ==
    /\ UserEvent
    /\ tool = "preview"
    /\ IF targets = <<>>
       THEN UNCHANGED stack
       ELSE stack' = Append(stack, Frame(controls))
    /\ UNCHANGED <<cliVars, listVars, out, outdir, cfg, btn_start, controls, now, done>>

\* convert_selected() of the preview tool, with its message box
OnConvertSelected ==
    /\ UserEvent
    /\ tool = "preview"
    /\ \E s \in {get_selected_path(AppState)} :
          IF s = None
          THEN UNCHANGED <<outdir, done>>
          ELSE \E r \in {Convert(tool, s.v, controls, "none", outdir)} :
                  /\ outdir' = r.written
                  /\ done' = Append(done,
                        [kind |-> "selected", pc |-> "dialog", it |-> 1,
                         cfg |-> controls, ok |-> IF r.res THEN 1 ELSE 0,
                         skip |-> IF r.res THEN 0 ELSE 1, snap |-> <<s.v>>,
                         conv |-> << [src |-> s.v, cfg |-> controls,
                                      controls |-> controls] >>,
                         depth |-> Len(stack)])
    /\ UNCHANGED <<cliVars, listVars, out, cfg, stack, btn_start, controls, now>>

\* the loop's next iteration with the controls read again for every file
LoopStep_reread ==
    /\ stack # <<>>
    /\ Top.pc = "convert"
    /\ \E f \in {Top} :
          IF f.it < Len(targets)
          THEN \E p \in {targets[f.it + 1]} :
               \E c \in {controls} :
               \E r \in {Convert(tool, p, c, "none", outdir)} :
                  /\ outdir' = r.written
                  /\ stack' = [stack EXCEPT ![Len(stack)] =
                        [f EXCEPT !.it = f.it + 1,
                                  !.ok = IF r.res THEN f.ok + 1 ELSE f.ok,
                                  !.skip = IF r.res THEN f.skip ELSE f.skip + 1,
                                  !.conv = Append(f.conv, [src |-> p, cfg |-> c,
                                                           controls |-> controls]),
                                  !.pc = "pump"]]
                  /\ out' = IF tool = "preview" THEN out
                            ELSE Append(out, [kind |-> "progress", i |-> f.it + 1,
                                              total |-> Len(targets),
                                              status |-> IF r.res THEN "OK" ELSE "SKIP",
                                              name |-> Basename(p),
                                              info |-> IF r.res THEN Basename(r.info)
                                                       ELSE r.info])
          ELSE /\ stack' = [stack EXCEPT ![Len(stack)] = [f EXCEPT !.pc = "dialog"]]
               /\ UNCHANGED <<outdir, out>>
    /\ UNCHANGED <<cliVars, listVars, cfg, btn_start, controls, now, events, done>>

\* the loop's next iteration: the list iterator hands out the entry at its
\* position of the list as it is now, or ends the loop; the file is
\* converted (with the dict cfg of launch_gui, or with the loop's own cfg in
\* the preview tool), counted and logged
LoopStep ==
    /\ stack # <<>>
    /\ Top.pc = "convert"
    /\ \E f \in {Top} :
          IF f.it < Len(targets)
          THEN \E p \in {targets[f.it + 1]} :
               \E c \in {IF tool = "preview" THEN f.cfg ELSE cfg} :
               \E r \in {Convert(tool, p, c, "none", outdir)} :
                  /\ outdir' = r.written
                  /\ stack' = [stack EXCEPT ![Len(stack)] =
                        [f EXCEPT !.it = f.it + 1,
                                  !.ok = IF r.res THEN f.ok + 1 ELSE f.ok,
                                  !.skip = IF r.res THEN f.skip ELSE f.skip + 1,
                                  !.conv = Append(f.conv, [src |-> p, cfg |-> c,
                                                           controls |-> controls]),
                                  !.pc = "pump"]]
                  /\ out' = IF tool = "preview" THEN out
                            ELSE Append(out, [kind |-> "progress", i |-> f.it + 1,
                                              total |-> Len(targets),
                                              status |-> IF r.res THEN "OK" ELSE "SKIP",
                                              name |-> Basename(p),
                                              info |-> IF r.res THEN Basename(r.info)
                                                       ELSE r.info])
          ELSE /\ stack' = [stack EXCEPT ![Len(stack)] = [f EXCEPT !.pc = "dialog"]]
               /\ UNCHANGED <<outdir, out>>
    /\ UNCHANGED <<cliVars, listVars, cfg, btn_start, controls, now, events, done>>

\* root.update() returns to the loop
UpdateReturns ==
    /\ stack # <<>>
    /\ Top.pc = "pump"
    /\ stack' = [stack EXCEPT ![Len(stack)] = [Top EXCEPT !.pc = "convert"]]
    /\ UNCHANGED <<cliVars, listVars, out, outdir, cfg, btn_start, controls, now,
                   events, done>>

\* the completion dialog is closed, explorer is started and the handler
\* returns (start_proc enables its button again)
LoopDone ==
    /\ stack # <<>>
    /\ Top.pc = "dialog"
    /\ done' = Append(done, Top)
    /\ stack' = SubSeq(stack, 1, Len(stack) - 1)
    /\ btn_start' = IF tool = "preview" THEN btn_start ELSE "normal"
    /\ UNCHANGED <<cliVars, listVars, out, outdir, cfg, controls, now, events>>

\* an after callback that is due runs: render_preview()
TimerFires ==
    /\ Idling
    /\ \E x \in timers :
          /\ x.due <= now
          /\ (\E a \in {render_preview([AppState EXCEPT !.timers = timers \ {x}], controls)} : SetApp(a))
    /\ UNCHANGED <<cliVars, out, outdir, cfg, stack, btn_start, controls, now,
                   events, done>>

\* time passes
Tick ==
    /\ now < MaxTime
    /\ now' = now + TickMs
    /\ UNCHANGED <<cliVars, listVars, out, outdir, cfg, stack, btn_start, controls,
                   events, done>>

NextApp ==
    \/ OnAddFiles \/ OnAddFolder \/ OnClearList \/ OnControls \/ OnConfigure
    \/ OnSelect \/ OnStart \/ OnConvertAll \/ OnConvertSelected
    \/ LoopStep \/ UpdateReturns \/ LoopDone \/ TimerFires \/ Tick

SpecApp == InitApp /\ [][NextApp]_vars

---------------------------------------------------------------------------
(* Properties *)

NoDup(s) == \A i, j \in 1..Len(s) : i # j => s[i] # s[j]
IsSorted(s) == \A i, j \in 1..Len(s) : i < j => ~StrLess(s[j], s[i])

\* the n-th name safe_out_path can give a source: <name><suffix><ext> for
\* n = 1, <name><suffix>-<n><ext> for n >= 2
Candidate(t, src, n) ==
    LET parts == SplitExt(Basename(src))
    IN PathJoin(OUTPUT_DIR(t),
                parts[1] \o Suffix(t) \o (IF n = 1 THEN <<>> ELSE <<"-">> \o Digits(n))
                         \o parts[2])

\* C1: every successful conversion writes a file that did not exist before,
\* leaves every earlier file as it was, and names it with the first
\* candidate that is free: <name><suffix><ext>, then -2, -3, ...
C1_NoCollision ==
    [][(idx' = idx + 1 /\ last'.res) =>
          LET dst == last'.info
              src == last'.src
          IN /\ dst \notin DOMAIN outdir
             /\ DOMAIN outdir' = DOMAIN outdir \cup {dst}
             /\ \A f \in DOMAIN outdir : outdir'[f] = outdir[f]
             /\ outdir'[dst].src = src /\ outdir'[dst].complete
             /\ \E n \in 1..(Cardinality(DOMAIN outdir) + 1) :
                   /\ dst = Candidate(tool, src, n)
                   /\ \A m \in 1..(n - 1) : Candidate(tool, src, m) \in DOMAIN outdir]_vars

\* one source converted twice, and another source of the same base name
\* converted into the same directory
C1_Witness ==
    \E f, g, h \in DOMAIN outdir :
        /\ f # g
        /\ outdir[f].complete /\ outdir[g].complete /\ outdir[h].complete
        /\ outdir[f].src = outdir[g].src
        /\ outdir[h].src # outdir[f].src
        /\ Basename(outdir[h].src) = Basename(outdir[f].src)
        /\ Dirname(h) = Dirname(f)
        /\ Dirname(g) = Dirname(f)

\* C2: an animated source is never written: whatever else happens, each of
\* the three convert functions returns (False, reason) for it and leaves the
\* output directory as it was; so does the batch loop's step on it
C2_AnimatedSkipped ==
    /\ [](\A t \in Tools, fault \in Faults :
            \A f \in {g \in Files : FileContent[g].kind = "animated"} :
               LET r == Convert(t, f, cfg, fault, outdir)
               IN ~r.raised /\ ~r.res /\ r.info \in {"animated", "failed"}
                  /\ r.written = outdir)
    /\ [][(mode = "loop" /\ last' # last /\ last'.op = "convert"
             /\ FileContent[last'.src].kind = "animated")
          => (~last'.res /\ outdir' = outdir /\ ok' = ok)]_vars

\* the loop has just skipped an animated file after writing another file
C2_Witness ==
    /\ last.op = "convert"
    /\ last.src = F_d_c_gif
    /\ last.info = "animated"
    /\ outdir # EmptyDir
    /\ out # <<>> /\ out[Len(out)].status = "SKIP"

\* C3: no per-file outcome aborts the batch: the convert function returns,
\* the loop goes on to the last target, and ok + skip is the number of
\* targets when the summary is printed
C3_BatchNeverAborts ==
    /\ mode # "crashed"
    /\ mode = "loop" => /\ idx <= Len(targets)
                        /\ ok + skip = idx
                        /\ \A t \in Tools, fault \in Faults, f \in Files :
                              ~Convert(t, f, cfg, fault, outdir).raised
    /\ (mode = "done" /\ targets # <<>>) =>
          /\ idx = Len(targets)
          /\ ok + skip = Len(targets)
          /\ \E k \in 1..Len(out) :
                /\ out[k].kind = "summary"
                /\ out[k].ok = ok /\ out[k].skip = skip
                /\ out[k].total = Len(targets)
                /\ out[k].ok + out[k].skip = out[k].total

\* a finished batch that met an unrecognised file, an animated file and an
\* exception, and converted a file after them
C3_Witness ==
    /\ mode = "done"
    /\ ok >= 1 /\ skip >= 3
    /\ \E i, j, k, l \in 1..Len(out) :
          /\ out[i].kind = "progress" /\ out[i].info = "animated"
          /\ out[j].kind = "progress" /\ out[j].info = "unidentified"
          /\ out[k].kind = "progress" /\ out[k].info = "failed"
          /\ out[l].kind = "progress" /\ out[l].status = "OK" /\ l > k

\* what each input of the model names in the tree, and the tree's files
\* with an image extension, written out independently of the code
C4_Names ==
    (I_a :> F_a_png) @@ (I_a_via_d :> F_a_png) @@ (F_B_JPG :> F_B_JPG) @@
    (I_n :> F_n_txt) @@ (F_d_c_gif :> F_d_c_gif) @@
    (I_d :> <<"/","w","/","d">>) @@ (I_d_e :> <<"/","w","/","d","/","e">>) @@
    (I_nope :> <<"/","w","/","n","o","p","e",".","p","n","g">>)
C4_ImageFiles == {F_a_png, F_B_JPG, F_d_a_png, F_d_c_gif, F_d_e_z_png}
C4_Expected(inputs) ==
    {f \in C4_ImageFiles :
        \E k \in 1..Len(inputs) :
            /\ inputs[k] # <<>>
            /\ \/ C4_Names[inputs[k]] = f
               \/ StartsWith(f, C4_Names[inputs[k]] \o <<"/">>)}

\* C4: collect_targets returns exactly the image files named directly or
\* lying under a named directory, each once, in ascending order
C4_CollectTargets ==
    (tool # "preview" /\ mode # "start") =>
        /\ Range(targets) = C4_Expected(argv)
        /\ NoDup(targets)
        /\ IsSorted(targets)

\* a file named directly and again through its directory
C4_Witness ==
    /\ mode = "loop"
    /\ argv = <<F_d_c_gif, I_d>>
    /\ Len(targets) = 3

IdentityCfg(c) ==
    ~c.autocontrast /\ c.brightness = 100 /\ c.contrast = 100 /\ c.gamma = 100

\* C5: under the identity configuration (autocontrast off, brightness,
\* contrast and gamma 1.0, any cutoff) the pipeline executes no step and
\* returns its input, so with default_cfg the adjust tools save the pixels
\* the plain grayscale tool saves
C5_IdentityNoOp ==
    /\ (mode = "applied" /\ IdentityCfg(cfg)) => (steps = <<>> /\ result = gray)
    /\ IdentityCfg(default_cfg)
    /\ \A f \in StillFiles :
          /\ Adjusted("adjust", FileContent[f], default_cfg)
                = Adjusted("gray", FileContent[f], default_cfg)
          /\ Adjusted("preview", FileContent[f], default_cfg)
                = Adjusted("gray", FileContent[f], default_cfg)

\* the pipeline has run under an identity configuration whose cutoff is not
\* the default
C5_Witness ==
    /\ mode = "applied"
    /\ IdentityCfg(cfg)
    /\ cfg.cutoff = 5
    /\ last.op = "apply"

\* the operations a configuration enables, in the pipeline's order
C6_Enabled(c) ==
    SelectSeq(<<"autocontrast", "brightness", "contrast", "gamma">>,
              LAMBDA o : CASE o = "autocontrast" -> c.autocontrast
                           [] o = "brightness" -> c.brightness # 100
                           [] o = "contrast" -> c.contrast # 100
                           [] o = "gamma" -> c.gamma # 100)
C6_Output(o, im, c) ==
    CASE o = "autocontrast" -> AutoContrast(im, c.cutoff)
      [] o = "brightness" -> Brightness(im, c.brightness)
      [] o = "contrast" -> Contrast(im, c.contrast)
      [] o = "gamma" -> Gamma(im, c.gamma)

\* C6: the executed operations are exactly the enabled ones in the order
\* autocontrast, brightness, contrast, gamma; each works on the output of
\* the one before it (the first on the grayscale input); the result is the
\* last output; and the two adjust variants do the same
C6_PipelineOrder ==
    mode = "applied" =>
        /\ [k \in 1..Len(steps) |-> steps[k].op] = C6_Enabled(cfg)
        /\ \A k \in 1..Len(steps) :
              /\ steps[k].in = IF k = 1 THEN gray ELSE steps[k - 1].out
              /\ steps[k].out = C6_Output(steps[k].op, steps[k].in, cfg)
        /\ result = IF steps = <<>> THEN gray ELSE steps[Len(steps)].out
        /\ apply_adjustments(gray, cfg) = apply_adjustments_L(gray, cfg)

\* a run with a step skipped between two executed ones, on an image for
\* which the order of brightness and contrast matters
C6_Witness ==
    /\ mode = "applied"
    /\ [k \in 1..Len(steps) |-> steps[k].op] = <<"autocontrast", "contrast", "gamma">>
    /\ Contrast(Brightness(gray, 150), 150) # Brightness(Contrast(gray, 150), 150)

\* C7 as claimed: every tool started with arguments naming an image runs the
\* batch, and the GUI opens only when the target list is empty
C7_AllToolsHaveCli ==
    /\ mode = "gui" => Collected[argv] = <<>>
    /\ (mode = "done" /\ Collected[argv] # <<>>) => out # <<>>

\* C7, amended: the gray and adjust tools run the batch exactly when
\* collect_targets finds a target and open the GUI otherwise, converting
\* nothing on the way; the preview tool always opens the GUI
C7_CliOrGui ==
    /\ []((tool \in {"gray", "adjust"} /\ mode # "start") =>
            IF Collected[argv] # <<>>
            THEN /\ mode \in {"loop", "done"}
                 /\ targets = Collected[argv]
                 /\ mode = "done" => (out # <<>> /\ idx = Len(targets))
            ELSE /\ mode \in {"gui", "done"}
                 /\ out = <<>> /\ idx = 0)
    /\ [](tool = "preview" => (mode \in {"start", "gui", "done"} /\ out = <<>> /\ idx = 0))
    /\ [][(mode = "start" \/ mode = "gui" \/ mode' = "gui") => outdir' = outdir]_vars

\* the preview tool in its GUI although its arguments name an image
C7_Witness ==
    /\ tool = "preview"
    /\ mode = "gui"
    /\ Collected[argv] # <<>>

C8_Reasons == {"animated", "unidentified", "failed"}
C8_Progress(k) ==
    /\ out[k].kind = "progress"
    /\ out[k].i = k
    /\ out[k].total = Len(targets)
    /\ out[k].name = Basename(targets[k])
    /\ out[k].status \in {"OK", "SKIP"}

\* C8: one progress line per target, numbered 1..total in the sorted target
\* order, OK with the destination's name exactly when the conversion
\* succeeded and SKIP with the reason otherwise; then the rule, the output
\* directory, the summary and the attempt to start explorer; and 0 returned
C8_ProgressLines ==
    /\ [](mode = "loop" =>
            /\ Len(out) = idx
            /\ IsSorted(targets)
            /\ \A k \in 1..idx : C8_Progress(k))
    /\ []((mode = "done" /\ targets # <<>>) =>
            LET n == Len(targets)
            IN /\ Len(out) = n + 4
               /\ \A k \in 1..n : C8_Progress(k)
               /\ out[n + 1].kind = "rule"
               /\ out[n + 2].kind = "outdir"
               /\ out[n + 3].kind = "summary"
               /\ out[n + 4].kind = "explorer")
    /\ [](IF mode = "done" THEN ret = 0 ELSE ret = -1)
    /\ [][idx' = idx + 1 =>
            LET line == out'[idx']
            IN /\ out' = Append(out, line)
               /\ line.status = "OK" <=> last'.res
               /\ last'.res => /\ line.info = Basename(last'.info)
                               /\ last'.info \in DOMAIN outdir' \ DOMAIN outdir
               /\ ~last'.res => /\ line.info = last'.info
                                /\ line.info \in C8_Reasons]_vars

\* a finished batch with an OK line and a SKIP line whose attempt to start
\* explorer failed
C8_Witness ==
    /\ mode = "done"
    /\ ret = 0
    /\ Len(out) >= 6
    /\ out[1].status = "SKIP"
    /\ out[2].status = "OK"
    /\ out[Len(out)].kind = "explorer" /\ ~out[Len(out)].started

\* C9: the GUI's target list never holds a path twice
C9_NoDuplicates == NoDup(targets) /\ NoDup(lb)

\* a push that found targets and added none of them, all being listed
C9_Witness ==
    /\ last.op = "push"
    /\ last.found >= 2
    /\ last.added = 0
    /\ Len(targets) >= 3

\* C10 as claimed: the GUI's target list is in ascending order
C10_AlwaysSorted == IsSorted(targets)

\* C10, amended: the command-line list is ascending; in the GUI every add
\* appends the paths it newly adds, in ascending order, after the entries
\* already listed, which keep their places
C10_SortedRuns ==
    /\ [](\A a \in Argvs : IsSorted(Collected[a]))
    /\ [][targets' # targets =>
            \/ targets' = <<>>
            \/ /\ Len(targets') > Len(targets)
               /\ SubSeq(targets', 1, Len(targets)) = targets
               /\ IsSorted(SubSeq(targets', Len(targets) + 1, Len(targets')))
               /\ \A k \in (Len(targets) + 1)..Len(targets') :
                     targets'[k] \notin Range(targets)]_vars

\* a list out of order after a second add of two paths
C10_Witness ==
    /\ last.op = "push"
    /\ last.added = 2
    /\ Len(targets) = 3
    /\ ~IsSorted(targets)

EndedBatches ==
    {f \in Range(done) : f.kind = "all"}
        \cup {stack[k] : k \in {j \in 1..Len(stack) : stack[j].pc = "dialog"}}
\* the paths a batch has tried to convert, in the order it tried them
Attempted(f) == [k \in 1..Len(f.conv) |-> f.conv[k].src]

\* C11: when a GUI batch reaches its completion dialog it has attempted
\* exactly the paths that were in the target list when it started, each once
\* and in list order, whatever events were dispatched between the files
C11_BatchIsSnapshot == \A f \in EndedBatches : Attempted(f) = f.snap

\* an ended batch that stopped before the end of the list it started with
C11_CutShort ==
    \E f \in EndedBatches : Len(f.conv) < Len(f.snap)
\* an ended batch that converted a path added while it was running
C11_Added ==
    \E f \in EndedBatches : \E k \in 1..Len(f.conv) : f.conv[k].src \notin Range(f.snap)
\* an ended batch that converted one path twice
C11_Repeated ==
    \E f \in EndedBatches : ~NoDup(Attempted(f))

\* every batch there is: those running or at their dialog, and those ended
AllBatches == Range(stack) \cup {f \in Range(done) : f.kind = "all"}

\* C12: every file of a batch is converted with the configuration read from
\* the controls when the batch started, whatever the controls show when the
\* file's turn comes, and the configuration object of a running batch is
\* left as it was read
C12_SameConfiguration ==
    /\ \A f \in AllBatches : \A k \in 1..Len(f.conv) : f.conv[k].cfg = f.cfg
    /\ \A f \in Range(stack) : tool = "adjust" => cfg = f.cfg

\* a file converted after the controls were moved away from the values the
\* batch started with
C12_Witness ==
    \E f \in AllBatches : \E k \in 1..Len(f.conv) :
        /\ tool \in {"adjust", "preview"}
        /\ k > 1
        /\ f.conv[k].controls # f.cfg
        /\ f.conv[k].cfg = f.cfg

\* C14: the preview debounce keeps a single pending render: at most one
\* after callback is pending, and update_job names it exactly when there is
\* one
C14_SinglePending ==
    /\ Cardinality(timers) <= 1
    /\ update_job # 0 <=> timers # {}
    /\ \A x \in timers : x.id = update_job

\* a pending callback that update_job no longer names
C14_Orphaned == tool = "preview" /\ update_job = 0 /\ timers # {}
\* two renders pending at once
C14_TwoPending == tool = "preview" /\ Cardinality(timers) = 2

\* C15: at most one conversion run is active at a time: no batch and no
\* single-file conversion starts while a batch has not yet returned from
\* its completion dialog
C15_OneRunAtATime ==
    /\ Len(stack) <= 1
    /\ \A f \in Range(stack) \cup Range(done) : f.depth = 0

\* a second batch started from inside the first batch's root.update()
C15_NestedBatch == Len(stack) = 2 /\ stack[1].pc = "pump"
\* a single-file conversion made from inside a batch's root.update()
C15_NestedSelected == \E f \in Range(done) : f.kind = "selected" /\ f.depth > 0
\* in the gray and adjust tools the disabled start button keeps batches apart
C15_ButtonGuards == tool \in {"gray", "adjust"} => Len(stack) <= 1

\* the listbox shows the target list, and get_selected_path() gives the
\* selected entry or None
C16_InStep ==
    /\ lb = targets
    /\ sel \in 0..Len(lb)
    /\ get_selected_path(AppState) = IF sel = 0 THEN None ELSE Some(lb[sel])
\* a push into an empty list selects the first item and tries to preview
\* it; any other push leaves selection and preview alone
C16_Push ==
    ((OnAddFiles \/ OnAddFolder) /\ tool = "preview") =>
        IF targets = <<>> /\ targets' # <<>>
        THEN /\ sel' = 1
             /\ preview_base' = make_preview_base(targets'[1])
             /\ shown' # None <=> preview_base' # None
        ELSE sel' = sel /\ preview_base' = preview_base /\ shown' = shown
\* clear_list empties the list and blanks the preview
C16_Clear ==
    (OnClearList /\ tool = "preview") =>
        targets' = <<>> /\ lb' = <<>> /\ preview_base' = None /\ shown' = None

\* C16 (as the code has it): in the preview tool the listbox and the target
\* list stay in step and get_selected_path() returns the displayed path of
\* the selection or None; a push that adds items to an empty list, and no
\* other push, selects the first item and tries to preview it, and the
\* panes show it exactly when the file can be opened as an image;
\* clear_list leaves the list empty, preview_base None and both panes blank
C16_ListAndPreview ==
    /\ [](tool = "preview" => C16_InStep)
    /\ [][C16_Push /\ C16_Clear]_vars

\* C16 (as stated): whenever a push adds items to a previously empty list
\* the first item is selected and previewed
C16_FirstPreviewed ==
    [][((OnAddFiles \/ OnAddFolder) /\ tool = "preview"
            /\ targets = <<>> /\ targets' # <<>>)
          => (sel' = 1 /\ shown' # None)]_vars

\* a first item that was selected but cannot be opened: nothing is shown
C16_Witness ==
    /\ tool = "preview"
    /\ targets # <<>>
    /\ sel = 1
    /\ make_preview_base(targets[1]) = None
    /\ preview_base = None
    /\ shown = None

===========================================================================
